---- MODULE Spec2Model ----
(***************************************************************************)
(* Model of yayoi_classifier.classifier: the rule-based AccountClassifier  *)
(* (constructor and classify) and the ClassificationResult it returns.     *)
(*                                                                         *)
(* Strings are sequences of one-character strings.  "A" is the only        *)
(* character str.lower() changes (to "a"); " " stands for every character  *)
(* str.strip() removes.  Python floats are modelled by exact rationals     *)
(* [n, d] in lowest terms: the comparison score > best_score is therefore  *)
(* the comparison of the exact values (IEEE rounding can separate two      *)
(* scores that are equal exactly, e.g. 0.6*3 + 0.4*0.5 and 0.6*2 + 0.4*2). *)
(***************************************************************************)
EXTENDS Integers, Sequences, FiniteSets, TLC

(***************************************************************************)
(* Bounds and input pools                                                  *)
(***************************************************************************)
\* longest text handed to classify
MaxTextLen == 2

\* most keywords a keyword mapping holds, over all its subject codes
MaxKeywords == 3

Chars == {"a", "b", "A", " "}

Whitespace == {" "}

\* the keyword strings a configuration may use
KeywordPool == {<<>>, <<"a">>, <<"A">>, <<"a", "b">>}

\* subject codes of the keyword mapping, in insertion order
CodeOrder == <<"411", "611">>

SeqsUpTo(S, n) == UNION {[1..k -> S] : k \in 0..n}

Texts == SeqsUpTo(Chars, MaxTextLen)

RECURSIVE TotalLen(_)
TotalLen(ls) == IF ls = <<>> THEN 0 ELSE Len(Head(ls)) + TotalLen(Tail(ls))

KeywordLists == SeqsUpTo(KeywordPool, MaxKeywords)

\* keyword_map arguments: a dict is a sequence of <<code, keywords>> pairs
\* with distinct codes, in insertion order
KeywordConfigs ==
    UNION {{[i \in 1..n |-> <<CodeOrder[i], f[i]>>] :
              f \in {g \in [1..n -> KeywordLists] : TotalLen(g) <= MaxKeywords}}
           : n \in 0..Len(CodeOrder)}

\* exact_lookup arguments: None (<<>>) or a dict, as <<key, code>> pairs
\* with distinct keys, in insertion order
ExactConfigs ==
    { <<>>,
      << <<<<"A">>, "611">>, <<<<"a">>, "411">> >>,
      << <<<<" ", "a">>, "611">>, <<<<>>, "701">> >>,
      << <<<<"A", "b">>, "611">> >> }

(***************************************************************************)
(* Exact arithmetic standing for float                                     *)
(***************************************************************************)
RECURSIVE GCD(_, _)
GCD(a, b) == IF b = 0 THEN a ELSE GCD(b, a % b)

\* the fraction n/d in lowest terms
Rat(n, d) == LET g == GCD(n, d) IN [n |-> n \div g, d |-> d \div g]

Reduce(x) == Rat(x.n, x.d)

\* sums, products and quotients are left unreduced; Reduce is applied to
\* the values that are stored or compared for equality
RatAdd(x, y) == [n |-> x.n * y.d + y.n * x.d, d |-> x.d * y.d]

RatMul(x, y) == [n |-> x.n * y.n, d |-> x.d * y.d]

RatDiv(x, y) == [n |-> x.n * y.d, d |-> x.d * y.n]

RatLess(x, y) == x.n * y.d < y.n * x.d

RatMin(x, y) == IF RatLess(y, x) THEN y ELSE x

Zero == [n |-> 0, d |-> 1]

One == [n |-> 1, d |-> 1]

(***************************************************************************)
(* String helpers                                                          *)
(***************************************************************************)
LowerChar(c) == IF c = "A" THEN "a" ELSE c

\* str.lower()
Lower(s) == [i \in 1..Len(s) |-> LowerChar(s[i])]

RECURSIVE LStrip(_)
LStrip(s) == IF s # <<>> /\ Head(s) \in Whitespace THEN LStrip(Tail(s)) ELSE s

RECURSIVE RStrip(_)
RStrip(s) ==
    IF s # <<>> /\ s[Len(s)] \in Whitespace
    THEN RStrip(SubSeq(s, 1, Len(s) - 1))
    ELSE s

\* the text is not trimmed
StripNoOp(s) == s

\* str.strip()
Strip(s) == RStrip(LStrip(s))

\* kw in normalized
Contains(kw, s) ==
    \E i \in 0..(Len(s) - Len(kw)) : SubSeq(s, i + 1, i + Len(kw)) = kw

Max(a, b) == IF a >= b THEN a ELSE b

RECURSIVE SumLen(_)
\* sum(len(m) for m in matches)
SumLen(ms) == IF ms = <<>> THEN 0 ELSE Len(Head(ms)) + SumLen(Tail(ms))

(***************************************************************************)
(* ClassificationResult and the outcome of a call                          *)
(***************************************************************************)
ClassificationResult(code, conf, kws) ==
    [status |-> "ok", subject_code |-> code, confidence |-> conf,
     matched_keywords |-> kws]

\* the call raised ValueError: there is no result
Raised == [status |-> "ValueError", subject_code |-> "", confidence |-> Zero,
           matched_keywords |-> <<>>]

NoCall == [status |-> "none", subject_code |-> "", confidence |-> Zero,
           matched_keywords |-> <<>>]

NoneCode == "None"

(***************************************************************************)
(* AccountClassifier.__init__                                              *)
(***************************************************************************)
\* the check also rejects a code without keywords
ConstructFailsOnEmptyList(kcfg) ==
    kcfg = <<>> \/ \E i \in DOMAIN kcfg : kcfg[i][2] = <<>>

\* if not keyword_map: raise ValueError
ConstructFails(kcfg) == kcfg = <<>>

\* {code: [kw.lower() for kw in keywords] for code, keywords in ...}
InitKeywordMap(kcfg) ==
    [i \in 1..Len(kcfg) |->
        <<kcfg[i][1], [j \in 1..Len(kcfg[i][2]) |-> Lower(kcfg[i][2][j])]>>]

\* {key.lower(): value for key, value in (exact_lookup or {}).items()}:
\* a later entry with the same lowered key overwrites the value
InitExactLookup(ecfg) ==
    [k \in {Lower(ecfg[i][1]) : i \in DOMAIN ecfg} |->
        LET last == CHOOSE i \in DOMAIN ecfg :
                       /\ Lower(ecfg[i][1]) = k
                       /\ \A j \in DOMAIN ecfg : Lower(ecfg[j][1]) = k => j <= i
        IN ecfg[last][2]]

(***************************************************************************)
(* AccountClassifier.classify                                              *)
(***************************************************************************)
\* normalized = text.lower().strip()
Normalize(t) == Strip(Lower(t))

\* the scan misses the first keyword of the list
TokenMatchesSkipFirst(keywords, normalized) ==
    SelectSeq(IF keywords = <<>> THEN <<>> ELSE Tail(keywords),
              LAMBDA kw : Contains(kw, normalized))

\* for kw in keywords: if kw in normalized: token_matches[code].append(kw)
TokenMatches(keywords, normalized) ==
    SelectSeq(keywords, LAMBDA kw : Contains(kw, normalized))

\* token_matches after the scan of every code, in keyword_map order
ScanAll(km, normalized) ==
    [i \in 1..Len(km) |-> <<km[i][1], TokenMatches(km[i][2], normalized)>>]

\* density = sum(len(m) for m in matches) / max(len(normalized), 1)
Density(matches, normalized) ==
    [n |-> SumLen(matches), d |-> Max(Len(normalized), 1)]

\* score = 0.6 * raw_score + 0.4 * density
Score(matches, normalized) ==
    LET raw_score == Len(matches)
    IN Reduce(RatAdd(RatMul([n |-> 6, d |-> 10], [n |-> raw_score, d |-> 1]),
                     RatMul([n |-> 4, d |-> 10], Density(matches, normalized))))

NoBest == [best_code |-> NoneCode, best_score |-> Zero, best_keywords |-> <<>>]

\* the comparison is >= : a later code with an equal score replaces the best
SelectStepLastWins(best, code, matches, normalized) ==
    IF matches = <<>>
    THEN best
    ELSE LET score == Score(matches, normalized)
         IN IF ~RatLess(score, best.best_score)
            THEN [best_code |-> code, best_score |-> score, best_keywords |-> matches]
            ELSE best

\* one iteration of "for code, matches in token_matches.items()"
SelectStep(best, code, matches, normalized) ==
    IF matches = <<>>
    THEN best
    ELSE LET score == Score(matches, normalized)
         IN IF RatLess(best.best_score, score)
            THEN [best_code |-> code, best_score |-> score, best_keywords |-> matches]
            ELSE best

RECURSIVE SelectLoop(_, _, _, _)
\* the selection loop from entry i on
SelectLoop(tm, normalized, i, best) ==
    IF i > Len(tm)
    THEN best
    ELSE SelectLoop(tm, normalized, i + 1,
                    SelectStep(best, tm[i][1], tm[i][2], normalized))

\* the score itself is clamped and returned
ConfidenceNoDivision(best_score) == Reduce(RatMin(best_score, One))

\* confidence = min(best_score / (best_score + 1.0), 1.0)
Confidence(best_score) ==
    Reduce(RatMin(RatDiv(best_score, RatAdd(best_score, One)), One))

\* the return statements after the selection loop
Finish(best) ==
    IF best.best_code = NoneCode
    THEN ClassificationResult("UNCLASSIFIED", Zero, <<>>)
    ELSE ClassificationResult(best.best_code, Confidence(best.best_score),
                              best.best_keywords)

\* return ClassificationResult(subject, 1.0, [normalized])
ExactResult(el, normalized) ==
    ClassificationResult(el[normalized], One, <<normalized>>)

\* the exact lookup is consulted only when no keyword matches
ClassifyKeywordFirst(km, el, t) ==
    LET normalized == Normalize(t)
        kw == Finish(SelectLoop(ScanAll(km, normalized), normalized, 1, NoBest))
    IN IF normalized = <<>>
       THEN Raised
       ELSE IF kw.subject_code = "UNCLASSIFIED" /\ normalized \in DOMAIN el
            THEN ExactResult(el, normalized)
            ELSE kw

\* classify(text) on an engine with keyword_map km and exact_lookup el
Classify(km, el, t) ==
    LET normalized == Normalize(t)
    IN IF normalized = <<>>
       THEN Raised
       ELSE IF normalized \in DOMAIN el
            THEN ExactResult(el, normalized)
            ELSE Finish(SelectLoop(ScanAll(km, normalized), normalized, 1, NoBest))

(***************************************************************************)
(* State                                                                   *)
(***************************************************************************)
\* threads calling classify on the one engine
NumThreads == 2

Threads == 1..NumThreads

\* texts the threads classify
ThreadTexts == {<<>>, <<" ">>, <<"a">>, <<"A", "b">>, <<"b", " ">>, <<"b", "a">>}

\* <<keyword_map, exact_lookup>> arguments of the engine the threads share
ThreadConfigs ==
    { << << <<"411", <<<<"a">>, <<"A">>>>>>, <<"611", <<<<"a", "b">>>>>> >>,
         << <<<<"b">>, "701">> >> >>,
      << << <<"411", <<<<"a", "b">>>>>>, <<"611", <<<<"A">>, <<>>>>>> >>,
         <<>> >>,
      << << <<"411", <<>>>>, <<"611", <<<<"A">>>>>> >>,
         << <<<<"A">>, "611">>, <<<<"a">>, "411">> >> >>,
      << << <<"411", <<<<"a">>>>>> >>,
         << <<<<>>, "611">>, <<<<"A", "b">>, "611">> >> >> }

VARIABLES
    arg_keyword_map,    \* constructor argument keyword_map
    arg_exact_lookup,   \* constructor argument exact_lookup
    constructed,        \* "new", "ok", or "ValueError" when __init__ raised
    keyword_map,        \* self.keyword_map
    exact_lookup,       \* self.exact_lookup
    text,               \* argument of the last classify call
    result,             \* its outcome
    pc,                 \* per thread: where its classify call stands
    t_text,             \* per thread: the argument text
    t_normalized,       \* per thread: the local normalized
    t_token_matches,    \* per thread: the local token_matches
    t_idx,              \* per thread: position of the running for loop
    t_best,             \* per thread: best_code, best_score, best_keywords
    t_result            \* per thread: outcome of the finished call

engine == <<arg_keyword_map, arg_exact_lookup, constructed, keyword_map, exact_lookup>>

locals == <<pc, t_text, t_normalized, t_token_matches, t_idx, t_best, t_result>>

vars == <<engine, text, result, locals>>

Init ==
    /\ arg_keyword_map = <<>>
    /\ arg_exact_lookup = <<>>
    /\ constructed = "new"
    /\ keyword_map = <<>>
    /\ exact_lookup = <<>>
    /\ text = <<>>
    /\ result = NoCall
    /\ pc = [t \in Threads |-> "idle"]
    /\ t_text = [t \in Threads |-> <<>>]
    /\ t_normalized = [t \in Threads |-> <<>>]
    /\ t_token_matches = [t \in Threads |-> <<>>]
    /\ t_idx = [t \in Threads |-> 0]
    /\ t_best = [t \in Threads |-> NoBest]
    /\ t_result = [t \in Threads |-> NoCall]

\* the body of __init__ on arguments kcfg, ecfg
ConstructWith(kcfg, ecfg) ==
    /\ arg_keyword_map' = kcfg
    /\ arg_exact_lookup' = ecfg
    /\ IF ConstructFails(kcfg)
       THEN /\ constructed' = "ValueError"
            /\ UNCHANGED <<keyword_map, exact_lookup>>
       ELSE /\ constructed' = "ok"
            /\ keyword_map' = InitKeywordMap(kcfg)
            /\ exact_lookup' = InitExactLookup(ecfg)

\* AccountClassifier(kcfg, exact_lookup=ecfg)
Construct ==
    /\ constructed = "new"
    /\ \E kcfg \in KeywordConfigs, ecfg \in ExactConfigs : ConstructWith(kcfg, ecfg)
    /\ UNCHANGED <<text, result, locals>>

\* classifier.classify(t), run to its return or raise.  Spec follows an
\* engine through its construction and one call; repeated and concurrent
\* calls on one engine are followed by SpecThreads.
ClassifyCall ==
    /\ constructed = "ok"
    /\ result = NoCall
    /\ \E t \in Texts :
        /\ text' = t
        /\ result' = Classify(keyword_map, exact_lookup, t)
    /\ UNCHANGED <<engine, locals>>

Next ==
    \/ Construct
    \/ ClassifyCall

Spec == Init /\ [][Next]_vars

(***************************************************************************)
(* classify called from several threads on one engine, statement by        *)
(* statement: every read of self.keyword_map and self.exact_lookup is a    *)
(* read of the shared engine at that step.                                 *)
(***************************************************************************)
\* the engine the threads share is constructed before they start
ConstructShared ==
    /\ constructed = "new"
    /\ \E c \in ThreadConfigs : ConstructWith(c[1], c[2])
    /\ UNCHANGED <<text, result, locals>>

\* classify entered: normalize, the empty check, the exact lookup and the
\* creation of token_matches
Enter(t) ==
    /\ constructed = "ok"
    /\ pc[t] = "idle"
    /\ \E txt \in ThreadTexts :
        LET normalized == Normalize(txt)
        IN /\ t_text' = [t_text EXCEPT ![t] = txt]
           /\ t_normalized' = [t_normalized EXCEPT ![t] = normalized]
           /\ IF normalized = <<>>
              THEN /\ t_result' = [t_result EXCEPT ![t] = Raised]
                   /\ pc' = [pc EXCEPT ![t] = "done"]
                   /\ UNCHANGED <<t_token_matches, t_idx>>
              ELSE IF normalized \in DOMAIN exact_lookup
                   THEN /\ t_result' = [t_result EXCEPT ![t] =
                                           ExactResult(exact_lookup, normalized)]
                        /\ pc' = [pc EXCEPT ![t] = "done"]
                        /\ UNCHANGED <<t_token_matches, t_idx>>
                   ELSE /\ t_token_matches' = [t_token_matches EXCEPT ![t] =
                               [i \in 1..Len(keyword_map) |-> <<keyword_map[i][1], <<>>>>]]
                        /\ t_idx' = [t_idx EXCEPT ![t] = 1]
                        /\ pc' = [pc EXCEPT ![t] = "scan"]
                        /\ UNCHANGED t_result
    /\ UNCHANGED <<engine, text, result, t_best>>

\* the scan removes each keyword it matched from the engine's list
ScanConsuming(t) ==
    /\ pc[t] = "scan"
    /\ LET i == t_idx[t]
           matches == TokenMatches(keyword_map[i][2], t_normalized[t])
       IN /\ t_token_matches' = [t_token_matches EXCEPT ![t][i][2] = matches]
          /\ keyword_map' = [keyword_map EXCEPT ![i][2] =
                SelectSeq(keyword_map[i][2],
                          LAMBDA kw : ~Contains(kw, t_normalized[t]))]
          /\ IF i < Len(keyword_map)
             THEN /\ t_idx' = [t_idx EXCEPT ![t] = i + 1]
                  /\ UNCHANGED <<pc, t_best>>
             ELSE /\ t_idx' = [t_idx EXCEPT ![t] = 1]
                  /\ t_best' = [t_best EXCEPT ![t] = NoBest]
                  /\ pc' = [pc EXCEPT ![t] = "select"]
    /\ UNCHANGED <<arg_keyword_map, arg_exact_lookup, constructed, exact_lookup,
                   text, result, t_text, t_normalized, t_result>>

\* one iteration of "for code, keywords in self.keyword_map.items()"; after
\* the last one best_code, best_score, best_keywords are initialised
Scan(t) ==
    /\ pc[t] = "scan"
    /\ LET i == t_idx[t]
           matches == TokenMatches(keyword_map[i][2], t_normalized[t])
       IN /\ t_token_matches' = [t_token_matches EXCEPT ![t][i][2] = matches]
          /\ IF i < Len(keyword_map)
             THEN /\ t_idx' = [t_idx EXCEPT ![t] = i + 1]
                  /\ UNCHANGED <<pc, t_best>>
             ELSE /\ t_idx' = [t_idx EXCEPT ![t] = 1]
                  /\ t_best' = [t_best EXCEPT ![t] = NoBest]
                  /\ pc' = [pc EXCEPT ![t] = "select"]
    /\ UNCHANGED <<engine, text, result, t_text, t_normalized, t_result>>

\* one iteration of "for code, matches in token_matches.items()"
Select(t) ==
    /\ pc[t] = "select"
    /\ LET i == t_idx[t]
           tm == t_token_matches[t]
       IN /\ t_best' = [t_best EXCEPT ![t] =
                           SelectStep(@, tm[i][1], tm[i][2], t_normalized[t])]
          /\ IF i < Len(tm)
             THEN /\ t_idx' = [t_idx EXCEPT ![t] = i + 1]
                  /\ UNCHANGED pc
             ELSE /\ t_idx' = [t_idx EXCEPT ![t] = 0]
                  /\ pc' = [pc EXCEPT ![t] = "return"]
    /\ UNCHANGED <<engine, text, result, t_text, t_normalized, t_token_matches,
                   t_result>>

\* the return statements after the selection loop
Return(t) ==
    /\ pc[t] = "return"
    /\ t_result' = [t_result EXCEPT ![t] = Finish(t_best[t])]
    /\ pc' = [pc EXCEPT ![t] = "done"]
    /\ UNCHANGED <<engine, text, result, t_text, t_normalized, t_token_matches,
                   t_idx, t_best>>

\* the caller has the outcome; the frame of the call is gone and the thread
\* may call again
Leave(t) ==
    /\ pc[t] = "done"
    /\ pc' = [pc EXCEPT ![t] = "idle"]
    /\ t_text' = [t_text EXCEPT ![t] = <<>>]
    /\ t_normalized' = [t_normalized EXCEPT ![t] = <<>>]
    /\ t_token_matches' = [t_token_matches EXCEPT ![t] = <<>>]
    /\ t_idx' = [t_idx EXCEPT ![t] = 0]
    /\ t_best' = [t_best EXCEPT ![t] = NoBest]
    /\ t_result' = [t_result EXCEPT ![t] = NoCall]
    /\ UNCHANGED <<engine, text, result>>

NextThreads ==
    \/ ConstructShared
    \/ \E t \in Threads : Enter(t)
    \/ \E t \in Threads : Scan(t)
    \/ \E t \in Threads : Select(t)
    \/ \E t \in Threads : Return(t)
    \/ \E t \in Threads : Leave(t)

SpecThreads == Init /\ [][NextThreads]_vars

(***************************************************************************)
(* Properties                                                              *)
(***************************************************************************)
\* a classify call has returned or raised
Called == result.status # "none"

\* the call went past the empty check and the exact lookup
KeywordPath ==
    /\ Called
    /\ LET n == Normalize(text) IN n # <<>> /\ n \notin DOMAIN exact_lookup

\* the matches of code i in the normalized text n
MatchesOf(i, n) == SelectSeq(keyword_map[i][2], LAMBDA kw : Contains(kw, n))

\* indices of the codes with at least one keyword occurring in n
Matching(n) == {i \in DOMAIN keyword_map : MatchesOf(i, n) # <<>>}

NoDuplicates(sq) == \A i, j \in DOMAIN sq : i # j => sq[i] # sq[j]

\* C1 as stated: whenever the normalized text is a key of a non-empty exact
\* lookup, classify returns that key's code, confidence 1.0 and the
\* normalized text as the only matched keyword.
C1_ExactMatchAlways ==
    Called =>
        LET n == Normalize(text)
        IN (DOMAIN exact_lookup # {} /\ n \in DOMAIN exact_lookup)
              => result = ClassificationResult(exact_lookup[n], One, <<n>>)

\* C1 amended: whenever the normalized text is non-empty and a key of the
\* exact lookup, classify returns that key's code, confidence 1.0 and the
\* normalized text as the only matched keyword, whatever keywords match.
C1_ExactMatchWins ==
    Called =>
        LET n == Normalize(text)
        IN (n # <<>> /\ n \in DOMAIN exact_lookup)
              => result = ClassificationResult(exact_lookup[n], One, <<n>>)

\* an exact match on a text in which a keyword of another code occurs
C1_Witness ==
    /\ Called
    /\ result.status = "ok"
    /\ LET n == Normalize(text)
       IN /\ n # <<>>
          /\ n \in DOMAIN exact_lookup
          /\ \E i \in Matching(n) : keyword_map[i][1] # result.subject_code

\* C2: a text that is empty or made only of whitespace always raises the
\* invalid-input error and yields no result, whatever the engine holds.
C2_BlankRejected ==
    (Called /\ \A i \in DOMAIN text : text[i] \in Whitespace) => result = Raised

\* a whitespace-only text rejected by an engine whose exact lookup holds the
\* empty key and whose keyword rules hold the empty keyword
C2_Witness ==
    /\ Called
    /\ text = <<" ", " ">>
    /\ <<>> \in DOMAIN exact_lookup
    /\ \E i \in DOMAIN keyword_map : \E j \in DOMAIN keyword_map[i][2] :
          keyword_map[i][2][j] = <<>>
    /\ result = Raised

\* C3: construction raises exactly when the keyword mapping has no entry.
C3_ConstructFailsIffEmpty ==
    constructed # "new" => (constructed = "ValueError" <=> Len(arg_keyword_map) = 0)

\* an engine constructed from a mapping holding a code without keywords and
\* no exact lookup
C3_Witness ==
    /\ constructed = "ok"
    /\ arg_exact_lookup = <<>>
    /\ \E i \in DOMAIN arg_keyword_map : arg_keyword_map[i][2] = <<>>

\* C4: for a text whose normalized form is non-empty classify never raises;
\* it returns UNCLASSIFIED, 0.0 and no keywords exactly when the normalized
\* text is no exact-lookup key and no keyword of any code occurs in it, and
\* a configured code when a keyword occurs and there is no exact match.
C4_UnclassifiedIffNoMatch ==
    Called =>
        LET n == Normalize(text)
            exact == n \in DOMAIN exact_lookup
            hit == \E i \in DOMAIN keyword_map : \E j \in DOMAIN keyword_map[i][2] :
                      Contains(keyword_map[i][2][j], n)
        IN n # <<>> =>
              /\ result.status = "ok"
              /\ (result = ClassificationResult("UNCLASSIFIED", Zero, <<>>))
                    <=> (~exact /\ ~hit)
              /\ (~exact /\ hit)
                    => \E i \in DOMAIN keyword_map :
                          keyword_map[i][1] = result.subject_code

\* the fallback taken by an engine that has keywords and an exact lookup
C4_Witness ==
    /\ KeywordPath
    /\ result = ClassificationResult("UNCLASSIFIED", Zero, <<>>)
    /\ DOMAIN exact_lookup # {}
    /\ \A i \in DOMAIN keyword_map : keyword_map[i][2] # <<>>

\* C5: the confidence lies in [0, 1]; on the keyword path it is
\* best_score / (best_score + 1) with best_score = 0.6 * count + 0.4 *
\* density > 0, strictly between 0 and 1 (the clamp changes nothing), and
\* confidence 1.0 comes only from an exact match.
C5_ConfidenceBounds ==
    (Called /\ result.status = "ok") =>
        LET n == Normalize(text)
        IN /\ ~RatLess(result.confidence, Zero)
           /\ ~RatLess(One, result.confidence)
           /\ (n \notin DOMAIN exact_lookup /\ result.matched_keywords # <<>>) =>
                 LET best_score == Score(result.matched_keywords, n)
                     unclamped == Reduce(RatDiv(best_score, RatAdd(best_score, One)))
                 IN /\ RatLess(Zero, best_score)
                    /\ result.confidence = unclamped
                    /\ RatLess(Zero, unclamped)
                    /\ RatLess(unclamped, One)
           /\ result.confidence = One => n \in DOMAIN exact_lookup

\* a keyword-path result whose best score exceeds 1
C5_Witness ==
    /\ KeywordPath
    /\ result.matched_keywords # <<>>
    /\ RatLess(One, Score(result.matched_keywords, Normalize(text)))

\* C6: whatever classify calls the threads make and however their steps
\* interleave, the engine keeps the keyword rules and exact lookup it was
\* constructed with, and every finished call has the outcome the same text
\* gives on the freshly constructed engine.
C6_EngineImmutableCallsPure ==
    constructed = "ok" =>
        /\ keyword_map = InitKeywordMap(arg_keyword_map)
        /\ exact_lookup = InitExactLookup(arg_exact_lookup)
        /\ \A t \in Threads :
              pc[t] = "done" =>
                  t_result[t] = Classify(InitKeywordMap(arg_keyword_map),
                                         InitExactLookup(arg_exact_lookup),
                                         t_text[t])

\* two finished calls on the same text, both by the keyword scan, on the
\* shared engine
C6_Witness ==
    /\ constructed = "ok"
    /\ pc[1] = "done"
    /\ pc[2] = "done"
    /\ t_text[1] = t_text[2]
    /\ t_result[1].status = "ok"
    /\ t_result[1].matched_keywords # <<>>
    /\ t_result[1].confidence # One

\* C7: on the keyword path the returned code is the first code, in the
\* mapping's order, among the matching codes of maximal score, and the
\* returned keywords are its matches in the order of its keyword list.
C7_FirstMaxWins ==
    KeywordPath =>
        \A n \in {Normalize(text)} :
            \A sc \in {[i \in Matching(n) |-> Score(MatchesOf(i, n), n)]} :
                DOMAIN sc # {} =>
                    \E w \in DOMAIN sc :
                        /\ result.subject_code = keyword_map[w][1]
                        /\ result.matched_keywords = MatchesOf(w, n)
                        /\ \A i \in DOMAIN sc :
                              /\ ~RatLess(sc[w], sc[i])
                              /\ (i # w /\ sc[i] = sc[w]) => w < i

\* two codes tie on the maximal score and the earlier one is returned
C7_Witness ==
    /\ KeywordPath
    /\ LET n == Normalize(text)
       IN \E i, j \in Matching(n) :
             /\ i < j
             /\ Score(MatchesOf(i, n), n) = Score(MatchesOf(j, n), n)
             /\ result.subject_code = keyword_map[i][1]

\* C8: the returned matched keywords never hold the same keyword string
\* twice, also when the configured list holds entries equal after lowercasing.
C8_NoKeywordTwice ==
    (Called /\ result.status = "ok") => NoDuplicates(result.matched_keywords)

\* C9: every matching code has 0 <= density <= 1, and of two codes the one
\* with strictly more matched keywords has the strictly higher score.
C9_DensityFractionCountFirst ==
    KeywordPath =>
        LET n == Normalize(text)
        IN \A i \in Matching(n) :
              /\ ~RatLess(Density(MatchesOf(i, n), n), Zero)
              /\ ~RatLess(One, Density(MatchesOf(i, n), n))
              /\ \A j \in Matching(n) :
                    Len(MatchesOf(i, n)) > Len(MatchesOf(j, n)) =>
                        RatLess(Score(MatchesOf(j, n), n), Score(MatchesOf(i, n), n))

\* C10: every stored exact-lookup key is lowercased and trimmed, and
\* classifying a key supplied in the configuration returns that key's code
\* with confidence 1.0.
C10_KeysNormalizedAndFound ==
    /\ constructed = "ok" => \A k \in DOMAIN exact_lookup : k = Normalize(k)
    /\ Called =>
          \A i \in DOMAIN arg_exact_lookup :
              arg_exact_lookup[i][1] = text =>
                  result = ClassificationResult(arg_exact_lookup[i][2], One,
                                                <<Normalize(text)>>)

====
